---- MODULE Spec2Model ----
(***************************************************************************)
(* A model of slimta.app.state.SlimtaState: the registry of relays, queues *)
(* and edges built lazily from the configuration, and the process          *)
(* lifecycle (privilege drop, stdio redirection, daemonize, pid file,      *)
(* SIGTERM handler, run loop).                                             *)
(*                                                                         *)
(* Python mappings are functions whose DOMAIN is the set of keys present,  *)
(* so `k in d` is  k \in DOMAIN d  and  d.get(k, default)  is Get.         *)
(* A call that raises is a result record whose out field names the         *)
(* exception class; a call that returns has out = "ok".                    *)
(***************************************************************************)
EXTENDS Integers, Sequences, FiniteSets, TLC

VARIABLES
    cfg,        \* self.cfg: the parsed configuration tree (read-only)
    relays,     \* self.relays: name -> relay instance
    queues,     \* self.queues: name -> queue instance
    edges,      \* self.edges: name -> edge instance
    celery,     \* self._celery: None or the celery client
    made,       \* how many times each constructor ran, per (kind, name)
    listens,    \* how many times new_edge.start() ran, per edge name
    log,        \* the constructions, registrations and starts, in order
    ret,        \* the outcome of the driver's last call
    args,       \* self.args: the parsed command line
    proc,       \* the process: uid and the system calls performed on it
    pidfile,    \* the pid file on disk: absent, or its content
    sigterm,    \* the handlers of the SIGTERM watchers started, in order
    run,        \* where loop()/worker_loop() stands
    steps,      \* what the current or last loop()/worker_loop() did, in order
    calls       \* number of driver calls made so far

vars == <<cfg, relays, queues, edges, celery, made, listens, log, ret,
          args, proc, pidfile, sigterm, run, steps, calls>>

registryVars == <<relays, queues, edges, celery, made, listens, log>>
processVars == <<args, proc, pidfile, sigterm, run, steps>>

\* The number of driver calls a behaviour of the process life cycle makes.
MaxCalls == 4

\* ------------------------------------------------------------------ values

\* None where an object is expected, and None as the value of an option.
None == <<>>
NoValue == "None"

\* Python truth of an option value: None and the empty string are false.
Falsy(v) == v \in {NoValue, ""}

\* options.get(key, default)
Get(options, key, default) ==
    IF key \in DOMAIN options THEN options[key] ELSE default

Relays == {"r1"}
Queues == {"q1", "q2"}
Edges == {"e1", "e2"}

\* The option sets a relay section may hold.
RelayOptions ==
    { [type |-> "mx"],
      [type |-> "static", host |-> "mail.example"],
      [type |-> "static", host |-> "mail.example", port |-> 587],
      [type |-> "static"],
      [type |-> "maildrop"],
      [type |-> "pipe"] }

\* The option sets a queue section may hold. Under a recognized type the
\* relay option is absent, empty, or the name of a relay section; under an
\* unrecognized type no other option is read.
QueueOptions ==
    { [type |-> t] : t \in {"memory", "disk", "proxy", "celery", "redis"} }
    \cup { [type |-> t, relay |-> r] :
             t \in {"memory", "disk", "proxy", "celery"},
             r \in Relays \cup {""} }
    \cup { [type |-> "disk", envelope_dir |-> "/env", meta_dir |-> "/meta"] }
    \cup { [type |-> "disk", relay |-> r,
            envelope_dir |-> "/env", meta_dir |-> "/meta"] :
             r \in Relays \cup {""} }

\* The option sets an edge section may hold. Under an unrecognized type no
\* other option is read.
EdgeOptions ==
    { [type |-> "smtp", queue |-> q] : q \in Queues }
    \cup { [type |-> "http", queue |-> "q1"] }

Components ==
    ({"relay"} \X Relays) \cup ({"queue"} \X Queues) \cup ({"edge"} \X Edges)
    \cup {<<"celery", "app">>}

\* The registry as the getters read and write it.
Registry ==
    [relays |-> relays, queues |-> queues, edges |-> edges, celery |-> celery,
     made |-> made, listens |-> listens, log |-> log]

Returned(s, v) == [s |-> s, out |-> "ok", val |-> v]
Raised(s, e) == [s |-> s, out |-> e, val |-> None]

\* d[k] = v on a Python dict
Put(d, k, v) == [x \in DOMAIN d \cup {k} |-> IF x = k THEN v ELSE d[x]]

\* A constructor call: the instance it returns is a new object, told from
\* every other by its id.
Construct(s, kind, name) ==
    [s EXCEPT !.made[<<kind, name>>] = @ + 1,
              !.log = Append(@, <<"construct", kind, name>>)]
NewId(s, kind, name) == <<kind, name, s.made[<<kind, name>>] + 1>>

\* ------------------------------------------------------------- _start_relay

RegisterRelay_forgets(s, name, new_relay) == Returned(s, new_relay)

\* self.relays[name] = new_relay; return new_relay
RegisterRelay(s, name, new_relay) ==
    Returned([s EXCEPT !.relays = Put(@, name, new_relay),
                       !.log = Append(@, <<"register", "relay", name>>)],
             new_relay)

\* _start_relay past the lookup in self.relays: the options are read from
\* the relay section and the type picks the constructor. options.host is
\* an attribute lookup on the section, which raises AttributeError when the
\* key is missing.
NewRelay(s, name) ==
    IF name \notin DOMAIN cfg.relay THEN Raised(s, "AttributeError")
    ELSE LET options == cfg.relay[name]
             id == NewId(s, "relay", name)
             built == Construct(s, "relay", name)
         IN  IF options.type = "mx" THEN
                 RegisterRelay(built, name, [class |-> "MxSmtpRelay", id |-> id])
             ELSE IF options.type = "static" THEN
                 IF "host" \notin DOMAIN options
                 THEN Raised(s, "AttributeError")
                 ELSE RegisterRelay(built, name,
                          [class |-> "StaticSmtpRelay", id |-> id,
                           host |-> options.host,
                           port |-> Get(options, "port", 25)])
             ELSE IF options.type = "maildrop" THEN
                 RegisterRelay(built, name, [class |-> "MaildropRelay", id |-> id])
             ELSE Raised(s, "ConfigError")

_start_relay_uncached(s, name) == NewRelay(s, name)

_start_relay(s, name) ==
    IF name \in DOMAIN s.relays THEN Returned(s, s.relays[name])
    ELSE NewRelay(s, name)

\* ------------------------------------------------------------- celery

\* get_celery_app(cfg): a new client handle for the configuration.
get_celery_app(s) ==
    Returned(Construct(s, "celery", "app"), NewId(s, "celery", "app"))

CeleryApp_uncached(s) ==
    LET app == get_celery_app(s)
    IN  Returned([app.s EXCEPT !.celery = app.val], app.val)

\* The celery property: the client is made on first use and kept.
CeleryApp(s) ==
    IF s.celery = None
    THEN LET app == get_celery_app(s)
         IN  Returned([app.s EXCEPT !.celery = app.val], app.val)
    ELSE Returned(s, s.celery)

\* ------------------------------------------------------------- _start_queue

RegisterQueue_forgets(s, name, new_queue) == Returned(s, new_queue)

\* add_queue_policies(queue, policies): the same handle, with the policies
\* composed onto its accept path.
add_queue_policies(new_queue) == new_queue

\* add_queue_policies(new_queue, ...); self.queues[name] = new_queue
RegisterQueue(s, name, new_queue) ==
    Returned([s EXCEPT !.queues = Put(@, name, add_queue_policies(new_queue)),
                       !.log = Append(@, <<"register", "queue", name>>)],
             add_queue_policies(new_queue))

\* A recognized type past the relay name: the relay is fetched, then the
\* queue is constructed on it. options.envelope_dir and options.meta_dir
\* are attribute lookups, as options.host is.
QueueOn(s, name, options, relay_name) ==
    LET r == _start_relay(s, relay_name)
    IN  IF r.out # "ok" THEN r
        ELSE IF options.type = "memory" THEN
            RegisterQueue(Construct(r.s, "queue", name), name,
                [class |-> "Queue", id |-> NewId(r.s, "queue", name),
                 store |-> "DictStorage", relay |-> r.val])
        ELSE IF options.type = "disk" THEN
            IF {"envelope_dir", "meta_dir"} \subseteq DOMAIN options
            THEN RegisterQueue(Construct(r.s, "queue", name), name,
                     [class |-> "Queue", id |-> NewId(r.s, "queue", name),
                      store |-> "DiskStorage", relay |-> r.val])
            ELSE Raised(r.s, "AttributeError")
        ELSE IF options.type = "proxy" THEN
            RegisterQueue(Construct(r.s, "queue", name), name,
                [class |-> "ProxyQueue", id |-> NewId(r.s, "queue", name),
                 relay |-> r.val])
        ELSE LET c == CeleryApp(r.s)
             IN  RegisterQueue(Construct(c.s, "queue", name), name,
                     [class |-> "CeleryQueue", id |-> NewId(c.s, "queue", name),
                      celery |-> c.val, relay |-> r.val])

BuildQueue_unchecked(s, name, options) ==
    QueueOn(s, name, options, Get(options, "relay", NoValue))

\* The branch of each of the four recognized types: the relay name is read
\* and checked before anything is fetched or constructed.
BuildQueue(s, name, options) ==
    LET relay_name == Get(options, "relay", NoValue)
    IN  IF Falsy(relay_name) THEN Raised(s, "ConfigError")
        ELSE QueueOn(s, name, options, relay_name)

_start_queue(s, name) ==
    IF name \in DOMAIN s.queues THEN Returned(s, s.queues[name])
    ELSE IF name \notin DOMAIN cfg.queue THEN Raised(s, "AttributeError")
    ELSE LET options == cfg.queue[name]
         IN  IF options.type \in {"memory", "disk", "proxy", "celery"}
             THEN BuildQueue(s, name, options)
             ELSE Raised(s, "ConfigError")

\* ------------------------------------------------------------- _start_edge

SmtpEdge_registers_first(s, name, options) ==
    LET q == _start_queue(s, options.queue)
        new_edge == [class |-> "SmtpEdge", id |-> NewId(s, "edge", name),
                     queue |-> q.val]
        built == Construct(q.s, "edge", name)
    IN  IF q.out # "ok"
        THEN Raised([q.s EXCEPT !.edges = Put(@, name, new_edge)], q.out)
        ELSE Returned(
               [built EXCEPT
                  !.listens[name] = @ + 1,
                  !.edges = Put(@, name, new_edge),
                  !.log = @ \o <<<<"start", "edge", name>>,
                                 <<"register", "edge", name>>>>],
               new_edge)

\* The smtp branch: the queue is fetched, the edge is constructed on it and
\* started; then self.edges[name] = new_edge. The listener section is taken
\* to be present.
SmtpEdge(s, name, options) ==
    LET q == _start_queue(s, options.queue)
    IN  IF q.out # "ok" THEN q
        ELSE LET built == Construct(q.s, "edge", name)
                 new_edge == [class |-> "SmtpEdge",
                              id |-> NewId(q.s, "edge", name),
                              queue |-> q.val]
                 started ==
                     [built EXCEPT
                        !.listens[name] = @ + 1,
                        !.log = Append(@, <<"start", "edge", name>>)]
             IN  Returned(
                   [started EXCEPT
                      !.edges = Put(@, name, new_edge),
                      !.log = Append(@, <<"register", "edge", name>>)],
                   new_edge)

NewEdge_queue_first(s, name, options) ==
    LET q == _start_queue(s, options.queue)
    IN  IF q.out # "ok" THEN q
        ELSE IF options.type = "smtp" THEN SmtpEdge(q.s, name, options)
        ELSE Raised(q.s, "ConfigError")

\* _start_edge past the lookup in self.edges: the type picks the branch.
NewEdge(s, name, options) ==
    IF options.type = "smtp" THEN SmtpEdge(s, name, options)
    ELSE Raised(s, "ConfigError")

_start_edge_uncached(s, name) ==
    IF name \notin DOMAIN cfg.edge THEN Raised(s, "AttributeError")
    ELSE NewEdge(s, name, cfg.edge[name])

_start_edge(s, name) ==
    IF name \in DOMAIN s.edges THEN Returned(s, s.edges[name])
    ELSE IF name \notin DOMAIN cfg.edge THEN Raised(s, "AttributeError")
    ELSE NewEdge(s, name, cfg.edge[name])

\* ------------------------------------------------------------- start_edges

\* The order in which dict(self.cfg.edge).items() and
\* dict(self.cfg.queue).items() yield the sections: one order for the life
\* of the process. Every assignment of options to the names is a
\* configuration, so any other order is this one with the names exchanged.
EdgeItems == <<"e1", "e2">>
QueueItems == <<"q1", "q2">>

RECURSIVE StartEach_carries_on(_, _)
StartEach_carries_on(s, names) ==
    IF names = <<>> THEN Returned(s, None)
    ELSE LET e == _start_edge(s, Head(names))
             rest == StartEach_carries_on(e.s, Tail(names))
         IN  IF e.out # "ok" THEN Raised(rest.s, e.out) ELSE rest

\* for name, options in dict(self.cfg.edge).items(): self._start_edge(...)
\* An exception ends the loop.
RECURSIVE StartEach(_, _)
StartEach(s, names) ==
    IF names = <<>> THEN Returned(s, None)
    ELSE LET e == _start_edge(s, Head(names))
         IN  IF e.out # "ok" THEN Raised(e.s, e.out)
             ELSE StartEach(e.s, Tail(names))

start_edges(s) == StartEach(s, EdgeItems)

\* for name, options in dict(self.cfg.queue).items():
\*     if options.type == 'celery': self._start_queue(name, options)
RECURSIVE StartEachCelery(_, _)
StartEachCelery(s, names) ==
    IF names = <<>> THEN Returned(s, None)
    ELSE IF cfg.queue[Head(names)].type = "celery"
         THEN LET q == _start_queue(s, Head(names))
              IN  IF q.out # "ok" THEN Raised(q.s, q.out)
                  ELSE StartEachCelery(q.s, Tail(names))
         ELSE StartEachCelery(s, Tail(names))

start_celery_queues(s) == StartEachCelery(s, QueueItems)

\* ------------------------------------------------------------- the driver

\* The state after a call: the registry the call left, and what it gave.
Finish(op, arg, r) ==
    /\ relays' = r.s.relays
    /\ queues' = r.s.queues
    /\ edges' = r.s.edges
    /\ celery' = r.s.celery
    /\ made' = r.s.made
    /\ listens' = r.s.listens
    /\ log' = r.s.log
    /\ ret' = [op |-> op, arg |-> arg, out |-> r.out, val |-> r.val,
               again |-> (ret.op = op /\ ret.arg = arg)]

StartRelay(name) ==
    /\ Finish("_start_relay", name, _start_relay(Registry, name))
    /\ UNCHANGED <<cfg, processVars, calls>>

StartQueue(name) ==
    /\ Finish("_start_queue", name, _start_queue(Registry, name))
    /\ UNCHANGED <<cfg, processVars, calls>>

StartEdge(name) ==
    /\ Finish("_start_edge", name, _start_edge(Registry, name))
    /\ UNCHANGED <<cfg, processVars, calls>>

StartEdges ==
    /\ Finish("start_edges", "", start_edges(Registry))
    /\ UNCHANGED <<cfg, processVars, calls>>

StartCeleryQueues ==
    /\ Finish("start_celery_queues", "", start_celery_queues(Registry))
    /\ UNCHANGED <<cfg, processVars, calls>>

\* __init__: empty registries, no celery client.
InitRegistry ==
    /\ relays = <<>>
    /\ queues = <<>>
    /\ edges = <<>>
    /\ celery = None
    /\ made = [c \in Components |-> 0]
    /\ listens = [e \in Edges |-> 0]
    /\ log = <<>>
    /\ ret = [op |-> "__init__", arg |-> "", out |-> "ok", val |-> None,
              again |-> FALSE]

\* ------------------------------------------------------------- the process

\* f restricted to the keys K
Restrict(f, K) == [k \in K |-> f[k]]

\* The option sets the process section may hold: each key present or not.
ProcessOptions ==
    { Restrict([user |-> "slimta", group |-> "mail", daemon |-> d], K) :
        d \in BOOLEAN, K \in SUBSET {"user", "group", "daemon"} }

\* slimta.system.drop_privileges(user, group): setgid, then setuid when a
\* user is given, after which the process is no longer superuser.
system_drop_privileges(p, user, group) ==
    [p EXCEPT !.setids = @ + 1,
              !.uid = IF Falsy(user) THEN @ ELSE 1000]

drop_privileges_unchecked(p) ==
    LET process_options == cfg.process
        user == Get(process_options, "user", NoValue)
        group == Get(process_options, "group", NoValue)
    IN  IF ~Falsy(user) \/ ~Falsy(group)
        THEN system_drop_privileges(p, user, group)
        ELSE p

drop_privileges(p) ==
    LET process_options == cfg.process
        user == Get(process_options, "user", NoValue)
        group == Get(process_options, "group", NoValue)
    IN  IF ~Falsy(user) \/ ~Falsy(group)
        THEN IF p.uid = 0
             THEN system_drop_privileges(p, user, group)
             ELSE [p EXCEPT !.warnings = @ + 1]
        ELSE p

redirect_streams(p) ==
    LET flag == Get(cfg.process, "daemon", FALSE)
    IN  IF flag /\ ~args.attached
        THEN [p EXCEPT !.redirects = @ + 1]
        ELSE p

daemonize_when_attached(p) ==
    LET flag == Get(cfg.process, "daemon", FALSE)
    IN  IF flag
        THEN [p EXCEPT !.forks = @ + 1, !.pid = @ + 1]
        ELSE p

\* slimta.system.daemonize() forks: the process that goes on is a new one.
daemonize(p) ==
    LET flag == Get(cfg.process, "daemon", FALSE)
    IN  IF flag /\ ~args.attached
        THEN [p EXCEPT !.forks = @ + 1, !.pid = @ + 1]
        ELSE p

\* Outside loop() and worker_loop(). While one of them waits, run keeps
\* its old_term, whether it holds the pid file, the watchers there were
\* when it was called, and the celery client its worker runs on.
Idle == [at |-> "idle", fn |-> "", old_term |-> "", held |-> FALSE,
         before |-> <<>>, celery |-> None]

DriverCall(op, p) ==
    /\ run.at = "idle"
    /\ calls < MaxCalls
    /\ calls' = calls + 1
    /\ proc' = p
    /\ ret' = [op |-> op, arg |-> "", out |-> "ok", val |-> None,
               again |-> (ret.op = op)]
    /\ UNCHANGED <<cfg, registryVars, args, pidfile, sigterm, run, steps>>

DropPrivileges == DriverCall("drop_privileges", drop_privileges(proc))
RedirectStreams == DriverCall("redirect_streams", redirect_streams(proc))
Daemonize == DriverCall("daemonize", daemonize(proc))

\* ------------------------------------------------------------- the run loop

\* What open(pid_file, 'w') followed by f.write(...) may do: write the pid;
\* fail in open, which leaves the disk as it was; or fail in the write or
\* the close, after open has created or truncated the file.
PidWrites == {"written", "open fails", "write fails"}

\* gevent.signal(SIGTERM, handler): starts a watcher that runs handler in
\* a new greenlet whenever SIGTERM is delivered, and returns that watcher
\* (an object with cancel()). The watchers started before stay active; what
\* handled the signal before is neither returned nor put aside.
gevent_signal(watchers, handler) ==
    [watchers |-> Append(watchers, handler), val |-> "watcher"]

\* What runs when SIGTERM is delivered: handle_term if a watcher holds it
\* (a watcher whose handler is not callable does nothing), else whatever
\* the process started with.
Effective(watchers) ==
    IF \E i \in DOMAIN watchers : watchers[i] = "handle_term"
    THEN "handle_term" ELSE "SIG_DFL"

Enter_pid_file_outside(fn, write) ==
    LET on == gevent_signal(sigterm, "handle_term")
    IN  IF Falsy(args.pid_file) THEN
            [sigterm |-> on.watchers, pidfile |-> pidfile, out |-> "blocked",
             run |-> [at |-> "waiting", fn |-> fn, old_term |-> on.val,
                      held |-> FALSE, before |-> sigterm,
                      celery |-> None],
             steps |-> <<"install handle_term", "wait">>]
        ELSE IF write = "written" THEN
            [sigterm |-> on.watchers, pidfile |-> <<proc.pid>>,
             out |-> "blocked",
             run |-> [at |-> "waiting", fn |-> fn, old_term |-> on.val,
                      held |-> TRUE, before |-> sigterm,
                      celery |-> None],
             steps |-> <<"write pid", "install handle_term", "wait">>]
        ELSE
            [sigterm |-> sigterm,
             pidfile |-> IF write = "open fails" THEN pidfile ELSE <<0>>,
             out |-> "IOError", run |-> Idle, steps |-> <<write>>]

\* The with-blocks on the way in. _with_sighandlers starts the watcher of
\* handle_term and keeps what gevent.signal returned as old_term;
\* _with_pid_file writes the pid, or yields at once when no pid file is
\* configured. A failure to write is raised before the try of
\* _with_pid_file, so only the finally of _with_sighandlers runs, and the
\* except clause of the loop does not catch it.
Enter(fn, write) ==
    LET on == gevent_signal(sigterm, "handle_term")
        installed == <<"install handle_term">>
    IN  IF Falsy(args.pid_file) THEN
            [sigterm |-> on.watchers, pidfile |-> pidfile, out |-> "blocked",
             run |-> [at |-> "waiting", fn |-> fn, old_term |-> on.val,
                      held |-> FALSE, before |-> sigterm,
                      celery |-> None],
             steps |-> installed \o <<"wait">>]
        ELSE IF write = "written" THEN
            [sigterm |-> on.watchers, pidfile |-> <<proc.pid>>,
             out |-> "blocked",
             run |-> [at |-> "waiting", fn |-> fn, old_term |-> on.val,
                      held |-> TRUE, before |-> sigterm,
                      celery |-> None],
             steps |-> installed \o <<"write pid", "wait">>]
        ELSE
            [sigterm |-> gevent_signal(on.watchers, on.val).watchers,
             pidfile |-> IF write = "open fails" THEN pidfile ELSE <<0>>,
             out |-> "IOError", run |-> Idle,
             steps |-> installed \o <<write, "signal old_term">>]

\* The with-blocks on the way out, whatever ended the wait: the finally of
\* _with_pid_file unlinks the file and passes over an OSError, then the
\* finally of _with_sighandlers calls signal(SIGTERM, old_term).
Leave(unlinked) ==
    [sigterm |-> gevent_signal(sigterm, run.old_term).watchers,
     pidfile |-> IF run.held /\ unlinked THEN None ELSE pidfile,
     steps |-> steps \o (IF run.held
                         THEN <<IF unlinked THEN "unlink" ELSE "unlink fails">>
                         ELSE <<>>)
                     \o <<"signal old_term">>]

Caught_everything(exception) ==
    IF exception = "blocked" THEN "blocked" ELSE "ok"

Caught_interrupt_only(exception) ==
    IF exception \in {"KeyboardInterrupt", "return"} THEN "ok" ELSE exception

\* except (KeyboardInterrupt, SystemExit): pass. What the caller sees of
\* what left the try block ("blocked": nothing has left it yet).
Caught(exception) ==
    IF exception \in {"KeyboardInterrupt", "SystemExit", "return"}
    THEN "ok" ELSE exception

\* loop(): runs up to Event().wait().
Loop ==
    /\ run.at = "idle"
    /\ calls < MaxCalls
    /\ calls' = calls + 1
    /\ \E write \in PidWrites :
         LET e == Enter("loop", write)
         IN  /\ sigterm' = e.sigterm
             /\ pidfile' = e.pidfile
             /\ run' = e.run
             /\ steps' = e.steps
             /\ ret' = [op |-> "loop", arg |-> "", out |-> Caught(e.out),
                        val |-> None,
                        again |-> (ret.op = "loop")]
    /\ UNCHANGED <<cfg, registryVars, args, proc>>

\* worker_loop(): runs up to get_celery_worker(self.celery).run().
WorkerLoop ==
    /\ run.at = "idle"
    /\ calls < MaxCalls
    /\ calls' = calls + 1
    /\ \E write \in PidWrites :
         LET e == Enter("worker_loop", write)
             c == IF e.out = "blocked" THEN CeleryApp(Registry)
                  ELSE Returned(Registry, None)
         IN  /\ sigterm' = e.sigterm
             /\ pidfile' = e.pidfile
             /\ run' = [e.run EXCEPT !.celery = c.val]
             /\ steps' = e.steps
             /\ celery' = c.s.celery
             /\ made' = c.s.made
             /\ log' = c.s.log
             /\ ret' = [op |-> "worker_loop", arg |-> "",
                        out |-> Caught(e.out), val |-> None,
                        again |-> (ret.op = "worker_loop")]
    /\ UNCHANGED <<cfg, relays, queues, edges, listens, args, proc>>

\* What ends the wait, and the way out of the loop from there.
Unwind(exception) ==
    /\ run.at = "waiting"
    /\ \E unlinked \in BOOLEAN :
         LET l == Leave(unlinked)
         IN  /\ sigterm' = l.sigterm
             /\ pidfile' = l.pidfile
             /\ steps' = Append(l.steps, exception)
    /\ run' = Idle
    /\ ret' = [ret EXCEPT !.out = Caught(exception)]
    /\ UNCHANGED <<cfg, registryVars, args, proc, calls>>

\* SIGTERM is delivered while the loop waits: handle_term runs sys.exit(0),
\* and the SystemExit is raised in the waiting loop.
Sigterm == Effective(sigterm) = "handle_term" /\ Unwind("SystemExit")

\* Ctrl-C
Interrupt == Unwind("KeyboardInterrupt")

\* The celery worker's run() returns.
WorkerReturns == run.fn = "worker_loop" /\ Unwind("return")

\* The celery worker's run() raises.
WorkerRaises == run.fn = "worker_loop" /\ Unwind("Exception")

\* ------------------------------------------------------------- behaviours

\* The registry under every configuration, the process left alone.
DefaultProcess ==
    /\ args = [pid_file |-> NoValue, attached |-> FALSE]
    /\ proc = [uid |-> 0, pid |-> 100, setids |-> 0, warnings |-> 0,
               redirects |-> 0, forks |-> 0]
    /\ pidfile = None
    /\ sigterm = <<>>
    /\ run = Idle
    /\ steps = <<>>
    /\ calls = 0

Init ==
    /\ cfg \in [relay : [Relays -> RelayOptions],
                 queue : [Queues -> QueueOptions],
                 edge : [Edges -> EdgeOptions],
                 process : {[daemon |-> FALSE]}]
    /\ InitRegistry
    /\ DefaultProcess

Next ==
    \/ \E name \in Relays : StartRelay(name)
    \/ \E name \in Queues : StartQueue(name)
    \/ \E name \in Edges : StartEdge(name)
    \/ StartEdges
    \/ StartCeleryQueues

Spec == Init /\ [][Next]_vars

\* The process life cycle under every process section and command line, on
\* one configuration of the components.
LifeInit ==
    /\ cfg \in [relay : {[r \in Relays |-> [type |-> "mx"]]},
                 queue : {[q \in Queues |-> [type |-> "celery", relay |-> "r1"]]},
                 edge : {[e \in Edges |-> [type |-> "smtp", queue |-> "q1"]]},
                 process : ProcessOptions]
    /\ InitRegistry
    /\ args \in [pid_file : {NoValue, "/var/run/slimta.pid"},
                  attached : BOOLEAN]
    /\ proc \in [uid : {0, 1000}, pid : {100}, setids : {0}, warnings : {0},
                  redirects : {0}, forks : {0}]
    /\ pidfile = None
    /\ sigterm = <<>>
    /\ run = Idle
    /\ steps = <<>>
    /\ calls = 0

LifeNext ==
    \/ DropPrivileges
    \/ RedirectStreams
    \/ Daemonize
    \/ Loop
    \/ WorkerLoop
    \/ Sigterm
    \/ Interrupt
    \/ WorkerReturns
    \/ WorkerRaises

LifeSpec == LifeInit /\ [][LifeNext]_vars

\* The users of the celery client together: the queues of any
\* configuration, built one by one or by start_celery_queues, and the
\* worker, in any order of calls.
CeleryInit ==
    /\ cfg \in [relay : {[r \in Relays |-> [type |-> "mx"]]},
                 queue : [Queues -> QueueOptions],
                 edge : {[e \in Edges |-> [type |-> "smtp", queue |-> "q1"]]},
                 process : {[daemon |-> FALSE]}]
    /\ InitRegistry
    /\ args \in [pid_file : {NoValue, "/var/run/slimta.pid"},
                  attached : {FALSE}]
    /\ proc = [uid |-> 0, pid |-> 100, setids |-> 0, warnings |-> 0,
               redirects |-> 0, forks |-> 0]
    /\ pidfile = None
    /\ sigterm = <<>>
    /\ run = Idle
    /\ steps = <<>>
    /\ calls = 0

CeleryNext ==
    \/ run.at = "idle" /\ \E name \in Queues : StartQueue(name)
    \/ run.at = "idle" /\ StartCeleryQueues
    \/ WorkerLoop
    \/ Sigterm
    \/ Interrupt
    \/ WorkerReturns
    \/ WorkerRaises

CelerySpec == CeleryInit /\ [][CeleryNext]_vars

\* ------------------------------------------------------------- properties

Kinds == {"relay", "queue", "edge"}
Getters == {"_start_relay", "_start_queue", "_start_edge"}

\* Event ev is in the log before position i.
Earlier(ev, i) == \E j \in 1..(i - 1) : log[j] = ev

\* The entries of registry d are still in d2, unchanged.
Kept(d, d2) == \A n \in DOMAIN d : n \in DOMAIN d2 /\ d2[n] = d[n]

\* C1: whatever the driver calls, no relay, queue or edge is constructed
\* more than once, a getter that returns gives the instance registered
\* under the name, and an entry of a registry is never removed or replaced
\* (so every return for a name is the same instance).
C1_ConstructedOnce ==
    [][ /\ \A c \in Components : c[1] \in Kinds => made'[c] <= 1
        /\ Kept(relays, relays') /\ Kept(queues, queues') /\ Kept(edges, edges')
        /\ (ret'.out = "ok" /\ ret'.op = "_start_relay")
              => (ret'.arg \in DOMAIN relays' /\ ret'.val = relays'[ret'.arg])
        /\ (ret'.out = "ok" /\ ret'.op = "_start_queue")
              => (ret'.arg \in DOMAIN queues' /\ ret'.val = queues'[ret'.arg])
        /\ (ret'.out = "ok" /\ ret'.op = "_start_edge")
              => (ret'.arg \in DOMAIN edges' /\ ret'.val = edges'[ret'.arg])
      ]_vars

\* A getter called twice in a row for a name it has built.
C1_Witness ==
    /\ ret.op \in Getters /\ ret.again /\ ret.out = "ok"
    /\ \E k \in Kinds : made[<<k, ret.arg>>] = 1

\* The relay a queue section names.
RelayOf(q) == Get(cfg.queue[q], "relay", NoValue)

\* C2: every queue is built on the one registered instance of the relay it
\* names, that relay was constructed once, so queues naming the same relay
\* share it, and the relay is constructed and registered before the queue
\* is constructed.
C2_RelayBeforeQueue ==
    /\ \A q \in DOMAIN queues :
          /\ RelayOf(q) \in DOMAIN relays
          /\ queues[q].relay = relays[RelayOf(q)]
          /\ made[<<"relay", RelayOf(q)>>] = 1
    /\ \A q1, q2 \in DOMAIN queues :
          RelayOf(q1) = RelayOf(q2) => queues[q1].relay = queues[q2].relay
    /\ \A i \in DOMAIN log :
          (log[i][1] = "construct" /\ log[i][2] = "queue")
             => /\ Earlier(<<"construct", "relay", RelayOf(log[i][3])>>, i)
                /\ Earlier(<<"register", "relay", RelayOf(log[i][3])>>, i)

\* Two queues that name the same relay are both built.
C2_Witness ==
    /\ DOMAIN queues = Queues
    /\ \A q \in Queues : RelayOf(q) = "r1"

\* C3: when an edge starts listening, the queue it names and that queue's
\* relay have been constructed and registered, and are in the registry.
C3_ListenAfterQueue ==
    \A i \in DOMAIN log :
       (log[i][1] = "start" /\ log[i][2] = "edge")
          => LET q == cfg.edge[log[i][3]].queue
             IN  /\ Earlier(<<"construct", "queue", q>>, i)
                 /\ Earlier(<<"register", "queue", q>>, i)
                 /\ Earlier(<<"construct", "relay", RelayOf(q)>>, i)
                 /\ Earlier(<<"register", "relay", RelayOf(q)>>, i)
                 /\ q \in DOMAIN queues
                 /\ RelayOf(q) \in DOMAIN relays

\* An edge is listening.
C3_Witness == \E e \in Edges : listens[e] = 1 /\ e \in DOMAIN edges

QueueTypes == {"memory", "disk", "proxy", "celery"}

\* C4: a call of the queue getter for a section of a recognized type with
\* no relay option, or an empty one, raises ConfigError, constructs nothing
\* and leaves the registries as they were.
C4_NoRelayName ==
    [][ (/\ ret'.op = "_start_queue"
         /\ cfg.queue[ret'.arg].type \in QueueTypes
         /\ Falsy(RelayOf(ret'.arg)))
        => (/\ ret'.out = "ConfigError"
            /\ made' = made
            /\ relays' = relays /\ queues' = queues /\ edges' = edges)
      ]_vars

\* The queue getter has failed on a section with an empty relay option.
C4_Witness ==
    /\ ret.op = "_start_queue" /\ ret.out = "ConfigError"
    /\ cfg.queue[ret.arg].type \in QueueTypes
    /\ "relay" \in DOMAIN cfg.queue[ret.arg]
    /\ cfg.queue[ret.arg].relay = ""

\* C5: a call of the edge getter for a section whose type is not smtp
\* raises ConfigError, starts no listener, constructs nothing and leaves
\* the registries as they were.
C5_UnknownEdgeType ==
    [][ (ret'.op = "_start_edge" /\ cfg.edge[ret'.arg].type # "smtp")
        => (/\ ret'.out = "ConfigError"
            /\ listens' = listens
            /\ made' = made
            /\ relays' = relays /\ queues' = queues /\ edges' = edges)
      ]_vars

\* The edge getter has failed on a section of another type, whose queue
\* could have been built.
C5_Witness ==
    /\ ret.op = "_start_edge" /\ ret.out = "ConfigError"
    /\ cfg.edge[ret.arg].type = "http"
    /\ cfg.queue[cfg.edge[ret.arg].queue] = [type |-> "memory", relay |-> "r1"]
    /\ cfg.relay["r1"].type = "mx"


\* C6: the relay getter, on a static section with no host, raises
\* ConfigError, as it does on an unrecognized type, and registers nothing;
\* on a static section with a host and no port it builds a relay to port 25.
C6_StaticHostConfigError ==
    ret.op = "_start_relay"
       => LET options == cfg.relay[ret.arg]
          IN  /\ (options.type = "static" /\ "host" \notin DOMAIN options)
                    => (ret.out = "ConfigError" /\ ret.arg \notin DOMAIN relays)
              /\ (options.type = "static" /\ "host" \in DOMAIN options
                    /\ "port" \notin DOMAIN options)
                    => (ret.out = "ok" /\ ret.val.port = 25)

LoopCalls == {"loop", "worker_loop"}

\* C7: with a pid file configured, the file holds the process id all the
\* while the run loop waits, and once loop() or worker_loop() is over,
\* however it ended, the file is gone.
C7_PidFileGoneAfterExit ==
    ~Falsy(args.pid_file)
       => /\ run.at = "waiting" => pidfile = <<proc.pid>>
          /\ (run.at = "idle" /\ ret.op \in LoopCalls) => pidfile = None

\* Step a comes before step b wherever both are among the steps.
Precedes(a, b) ==
    \A i, j \in DOMAIN steps : (steps[i] = a /\ steps[j] = b) => i < j

\* Step a is among the steps.
Did(a) == \E i \in DOMAIN steps : steps[i] = a

\* C8 as claimed: the pid file is written before the SIGTERM handler is
\* installed, and the handler is installed before the wait begins.
C8_PidFileBeforeHandler ==
    /\ Precedes("write pid", "install handle_term")
    /\ Precedes("install handle_term", "wait")

\* C8, amended: the SIGTERM handler is installed before the pid file is
\* written, and both come before the wait (or the worker's run) begins:
\* the wait never begins without the handler installed, nor, when a pid
\* file is configured, without the pid written.
C8_HandlerBeforePidFile ==
    /\ Precedes("install handle_term", "write pid")
    /\ Precedes("write pid", "wait")
    /\ Precedes("install handle_term", "wait")
    /\ Did("write pid") => Did("install handle_term")
    /\ Did("wait") => /\ Did("install handle_term")
                      /\ ~Falsy(args.pid_file) => Did("write pid")

\* The loop waits, holding the pid file it wrote.
C8_Witness ==
    /\ run.at = "waiting" /\ run.held
    /\ Did("write pid") /\ Did("wait")

\* C9: no edge is ever started twice; a start_edges that returns has
\* started every configured edge once; and a start_edges called again, or
\* called with every edge registered, starts and constructs nothing and
\* leaves the registries as they were.
C9_StartEdgesOnce ==
    [][ /\ \A e \in Edges : listens'[e] <= 1
        /\ (ret'.op = "start_edges" /\ ret'.out = "ok")
              => \A e \in Edges : listens'[e] = 1 /\ e \in DOMAIN edges'
        /\ (ret'.op = "start_edges" /\ (ret'.again \/ DOMAIN edges = Edges))
              => (/\ listens' = listens /\ made' = made
                  /\ relays' = relays /\ queues' = queues /\ edges' = edges)
      ]_vars

\* start_edges called twice in a row, with every edge started.
C9_Witness ==
    /\ ret.op = "start_edges" /\ ret.again /\ ret.out = "ok"
    /\ \A e \in Edges : listens[e] = 1

\* C10: whatever the driver calls, the privileges are dropped, the streams
\* redirected and the process put in the background at most once each.
C10_AtMostOnce ==
    /\ proc.setids <= 1
    /\ proc.redirects <= 1
    /\ proc.forks <= 1


\* The positions in EdgeItems of the edges that registry d does not hold.
Unbuilt(d) == {i \in DOMAIN EdgeItems : EdgeItems[i] \notin DOMAIN d}
FirstUnbuilt(d) == CHOOSE i \in Unbuilt(d) : \A j \in Unbuilt(d) : i <= j

\* The components that the edges up to position i of EdgeItems rest on.
UpTo(i) ==
    LET es == {EdgeItems[k] : k \in 1..i}
        qs == {cfg.edge[e].queue : e \in es}
        rs == {RelayOf(q) : q \in qs}
    IN  ({"edge"} \X es) \cup ({"queue"} \X qs) \cup ({"relay"} \X rs)
        \cup {<<"celery", "app">>}

\* C11: start_edges returns only when every configured edge is built: the
\* error of the first edge that cannot be built is raised to the caller,
\* and the call has constructed, registered and started nothing but what
\* the edges up to that one rest on; the edges after it are untouched.
C11_ErrorEndsStartEdges ==
    [][ ret'.op = "start_edges"
        => /\ (ret'.out = "ok") <=> (Unbuilt(edges') = {})
           /\ ret'.out \in {"ok", "ConfigError", "AttributeError"}
           /\ ret'.out # "ok"
                => LET i == FirstUnbuilt(edges')
                   IN  /\ \A k \in (Len(log) + 1)..Len(log') :
                              <<log'[k][2], log'[k][3]>> \in UpTo(i)
                       /\ \A j \in Unbuilt(edges') :
                              /\ listens'[EdgeItems[j]] = listens[EdgeItems[j]]
                              /\ made'[<<"edge", EdgeItems[j]>>]
                                    = made[<<"edge", EdgeItems[j]>>]
      ]_vars

\* start_edges has failed on the first edge, and the second edge, which
\* could have been built on a queue of its own, is not built.
C11_Witness ==
    /\ ret.op = "start_edges" /\ ret.out = "ConfigError"
    /\ cfg.edge["e1"].type = "http"
    /\ cfg.edge["e2"] = [type |-> "smtp", queue |-> "q2"]
    /\ cfg.queue["q2"] = [type |-> "memory", relay |-> "r1"]
    /\ cfg.relay["r1"].type = "mx"
    /\ "e2" \notin DOMAIN edges /\ "q2" \notin DOMAIN queues

\* C12: a start_edges or getter call that raises ConfigError leaves no
\* edge that it started listening, and nothing that it built registered.
C12_NothingLeftStarted ==
    [][ (ret'.op \in Getters \cup {"start_edges"} /\ ret'.out = "ConfigError")
        => (/\ listens' = listens
            /\ relays' = relays /\ queues' = queues /\ edges' = edges)
      ]_vars


\* The last of the steps.
LastStep == IF steps = <<>> THEN "" ELSE steps[Len(steps)]

\* C13: loop() returns to its caller only upon a SIGTERM or an interrupt,
\* and a SIGTERM delivered while loop() waits makes it return normally: no
\* exception reaches the caller.
C13_SigtermReturns ==
    [][ /\ (ret'.op = "loop" /\ run'.at = "idle" /\ ret'.out = "ok")
              => (/\ run.at = "waiting"
                  /\ LastStep' \in {"SystemExit", "KeyboardInterrupt"})
        /\ (run.at = "waiting" /\ run.fn = "loop" /\ LastStep' = "SystemExit")
              => (run'.at = "idle" /\ ret'.op = "loop" /\ ret'.out = "ok")
      ]_vars

\* loop() has returned upon a SIGTERM.
C13_Witness ==
    /\ ret.op = "loop" /\ ret.out = "ok" /\ run.at = "idle"
    /\ LastStep = "SystemExit"

\* C14: when loop() or worker_loop() is over, however it ended, what runs
\* upon SIGTERM is what ran upon it before the call.
C14_HandlerRestored ==
    [][ (ret'.op \in LoopCalls /\ run'.at = "idle")
        => Effective(sigterm')
              = Effective(IF run.at = "waiting" THEN run.before ELSE sigterm)
      ]_vars


\* The pid file could not be written in the call that steps records.
WriteFailed(s) == \E i \in DOMAIN s : s[i] \in {"open fails", "write fails"}

\* C15: when the pid file cannot be written, loop() and worker_loop() raise
\* the IOError to their caller, and neither the wait nor the worker's run
\* (nor the celery client it needs) is started.
C15_PidWriteFailureFatal ==
    [][ (ret'.op \in LoopCalls /\ run.at = "idle" /\ WriteFailed(steps'))
        => /\ ret'.out = "IOError"
           /\ run'.at = "idle"
           /\ \A i \in DOMAIN steps' : steps'[i] # "wait"
           /\ celery' = celery /\ made' = made
      ]_vars

C15_Witness ==
    /\ ret.op = "worker_loop" /\ ret.out = "IOError" /\ run.at = "idle"
    /\ WriteFailed(steps)
    /\ ~Falsy(args.pid_file)

\* A user or a group to run as is configured.
Configured ==
    \/ "user" \in DOMAIN cfg.process /\ ~Falsy(cfg.process.user)
    \/ "group" \in DOMAIN cfg.process /\ ~Falsy(cfg.process.group)

\* C16: drop_privileges returns normally; called with a user or group
\* configured by a process that is not superuser it warns once and drops
\* nothing; with neither configured it does nothing at all.
C16_UnprivilegedDropWarns ==
    [][ ret'.op = "drop_privileges"
        => /\ ret'.out = "ok"
           /\ (Configured /\ proc.uid # 0)
                 => proc' = [proc EXCEPT !.warnings = @ + 1]
           /\ ~Configured => proc' = proc
      ]_vars

C16_Witness ==
    /\ ret.op = "drop_privileges" /\ ret.out = "ok"
    /\ Configured
    /\ proc.uid # 0 /\ proc.warnings = 1 /\ proc.setids = 0

\* The daemon option is set and the process was not launched attached.
Detaches ==
    /\ "daemon" \in DOMAIN cfg.process /\ cfg.process.daemon
    /\ ~args.attached

\* C18: redirect_streams redirects the standard streams, and daemonize
\* forks, exactly when the daemon option is set and the attached flag is
\* not; otherwise each leaves the process as it is.
C18_DaemonUnlessAttached ==
    [][ /\ ret'.op = "redirect_streams"
            => proc' = IF Detaches THEN [proc EXCEPT !.redirects = @ + 1]
                       ELSE proc
        /\ ret'.op = "daemonize"
            => proc' = IF Detaches
                       THEN [proc EXCEPT !.forks = @ + 1, !.pid = @ + 1]
                       ELSE proc
      ]_vars

C18_Witness ==
    /\ Detaches
    /\ ret.op = "daemonize"
    /\ proc.redirects = 1 /\ proc.forks = 1

\* C17: the celery client is made at most once, and every celery queue
\* and every worker run is given the one client the state keeps.
C17_OneCeleryClient ==
    /\ made[<<"celery", "app">>] <= 1
    /\ \A q \in DOMAIN queues :
          queues[q].class = "CeleryQueue"
             => (celery # None /\ queues[q].celery = celery)
    /\ (run.at = "waiting" /\ run.fn = "worker_loop")
          => (celery # None /\ run.celery = celery)

\* Two celery queues are built, and the worker runs for the second time.
C17_Witness ==
    /\ \A q \in Queues : q \in DOMAIN queues /\ queues[q].class = "CeleryQueue"
    /\ run.at = "waiting" /\ run.fn = "worker_loop" /\ ret.again
    /\ made[<<"celery", "app">>] = 1

\* C19: the registry is closed under what its members rest on: a registered
\* edge holds the registered queue that it names, and a registered queue
\* holds the registered relay that it names, also after a call that failed
\* part-way.
C19_DependencyClosed ==
    /\ \A e \in DOMAIN edges :
          /\ cfg.edge[e].queue \in DOMAIN queues
          /\ edges[e].queue = queues[cfg.edge[e].queue]
    /\ \A q \in DOMAIN queues :
          /\ RelayOf(q) \in DOMAIN relays
          /\ queues[q].relay = relays[RelayOf(q)]

\* _start_edge has failed after the relay of its queue was registered.
C19_Witness ==
    /\ ret.op = "_start_edge" /\ ret.out = "AttributeError"
    /\ DOMAIN relays = {"r1"}
    /\ cfg.edge[ret.arg].queue \notin DOMAIN queues
    /\ ret.arg \notin DOMAIN edges

\* C20: while loop() or worker_loop() holds the pid file, and as long as
\* the file exists, handle_term is what runs upon SIGTERM: within a call
\* the file is touched only after handle_term was installed.
C20_GracefulWhilePidFile ==
    /\ run.held => Effective(sigterm) = "handle_term"
    /\ pidfile # None => Effective(sigterm) = "handle_term"
    /\ \A i \in DOMAIN steps :
          steps[i] \in PidWrites \cup {"write pid"}
             => \E j \in 1..(i - 1) : steps[j] = "install handle_term"

C20_Witness ==
    /\ run.at = "waiting" /\ run.held
    /\ pidfile = <<proc.pid>>
    /\ Did("write pid")

====
